---- MODULE Spec2Model ----
(***************************************************************************)
(* Model of the WeatherAnalysis analytical core:                           *)
(*   utils/data_processing.py  load_and_validate_data, analyze_city_data,  *)
(*                             check_temperature_normality                 *)
(*   utils/weather_api.py      get_current_temperature                     *)
(*   utils/visualizations.py   create_timeseries                           *)
(*   app.py                    one run of the page                         *)
(* Temperatures are exact integers; every float the code derives from them *)
(* (mean, sample std, bounds) is kept as an exact rational or as the root  *)
(* of an exact rational, and NaN is kept as NaN, so that comparisons are   *)
(* decided as IEEE-754 decides them on exactly representable data.         *)
(***************************************************************************)
EXTENDS Integers, Sequences, FiniteSets, TLC

VARIABLES pc, uploaded_file, df, error, raised, settings, city_df,
          city_data, season_stats, city_anomalies,
          current_temp, current_season, normality,
          api_key, selected_city, weather_data, normal_data,
          shown, calls

vars == <<pc, uploaded_file, df, error, raised, settings, city_df,
          city_data, season_stats, city_anomalies,
          current_temp, current_season, normality,
          api_key, selected_city, weather_data, normal_data,
          shown, calls>>

\* the part of the state the page's later steps write
page == <<api_key, selected_city, weather_data, normal_data, shown>>

(***************************************************************************)
(* Bounds of the model.                                                    *)
(***************************************************************************)
\* rows of an uploaded CSV file
MaxFileRows == 3
\* observations of one city handed to analyze_city_data
MaxRows == 6
\* observations of one city behind the season_stats the classifier reads
MaxHistory == 4

(***************************************************************************)
(* Python values.                                                          *)
(***************************************************************************)
None == [isNone |-> TRUE, val |-> <<>>]
Some(v) == [isNone |-> FALSE, val |-> v]
IsNone(x) == x.isNone

RECURSIVE SumSeq(_)
SumSeq(s) == IF s = <<>> THEN 0 ELSE Head(s) + SumSeq(Tail(s))

Sign(x) == IF x > 0 THEN 1 ELSE IF x < 0 THEN -1 ELSE 0

(***************************************************************************)
(* CSV cells are text.  The tokens the model draws cells from, and what    *)
(* the pandas parsers make of them.                                        *)
(***************************************************************************)
CityTokens == {"Berlin", "Moscow"}
TimestampTokens == {"2023-01-01", "2023-01-02", "not-a-date"}
TemperatureTokens == {"-5", "abc"}
SeasonTokens == {" Winter ", "summer"}

\* pd.to_datetime on one cell: the day it denotes, or a parse failure
DateParses(tok) == tok \in {"2023-01-01", "2023-01-02"}
to_datetime(tok) == IF tok = "2023-01-01" THEN 1 ELSE 2

\* pd.read_csv type inference on one cell of the temperature column
IsNumeric(tok) == tok \in {"-5"}
ParseFloat(tok) == CASE tok = "-5" -> -5

\* str.lower() and str.strip() on the season tokens
str_lower(s) == IF s = " Winter " THEN " winter " ELSE s
str_strip(s) == IF s = " winter " THEN "winter"
                ELSE IF s = " Winter " THEN "Winter" ELSE s

\* Python's ordering of the strings the model uses (code point order)
StrRank(s) ==
    CASE s = "Berlin" -> 1
      [] s = "Moscow" -> 2
      [] s = "autumn" -> 3
      [] s = "spring" -> 4
      [] s = "summer" -> 5
      [] s = "winter" -> 6
      [] OTHER -> 0

(***************************************************************************)
(* config/settings.py                                                      *)
(***************************************************************************)
\* season key -> display label (the labels themselves are display text)
SEASON_MAPPING ==
    [s \in {"winter", "spring", "summer", "autumn"} |->
        CASE s = "winter" -> "ru_winter"
          [] s = "spring" -> "ru_spring"
          [] s = "summer" -> "ru_summer"
          [] s = "autumn" -> "ru_autumn"]

(***************************************************************************)
(* utils/data_processing.py                                                *)
(***************************************************************************)
translate_season(season) ==
    IF str_lower(season) \in DOMAIN SEASON_MAPPING
    THEN SEASON_MAPPING[str_lower(season)]
    ELSE season

\* the comparison of two cells of column col (text by code point, dates by day)
CellLess(a, b, col) ==
    IF col \in {"city", "season"} THEN StrRank(a[col]) < StrRank(b[col]) ELSE a[col] < b[col]

\* row a sorts strictly before row b under the sort keys by (lexicographic)
RECURSIVE RowLess(_, _, _)
RowLess(a, b, by) ==
    IF by = <<>> THEN FALSE
    ELSE \/ CellLess(a, b, Head(by))
         \/ a[Head(by)] = b[Head(by)] /\ RowLess(a, b, Tail(by))

\* a sort that moves a row in front of the rows of equal key
RECURSIVE InsertSortedUnstable(_, _, _)
InsertSortedUnstable(r, sorted, by) ==
    IF sorted = <<>> THEN <<r>>
    ELSE IF ~RowLess(sorted[Len(sorted)], r, by)
    THEN InsertSortedUnstable(r, SubSeq(sorted, 1, Len(sorted) - 1), by)
             \o <<sorted[Len(sorted)]>>
    ELSE sorted \o <<r>>

\* DataFrame.sort_values(by): a stable ascending sort of the rows
RECURSIVE InsertSorted(_, _, _)
InsertSorted(r, sorted, by) ==
    IF sorted = <<>> THEN <<r>>
    ELSE IF RowLess(r, sorted[Len(sorted)], by)
    THEN InsertSorted(r, SubSeq(sorted, 1, Len(sorted) - 1), by)
             \o <<sorted[Len(sorted)]>>
    ELSE sorted \o <<r>>

RECURSIVE SortValues(_, _)
SortValues(rows, by) ==
    IF rows = <<>> THEN <<>>
    ELSE InsertSorted(rows[Len(rows)],
                      SortValues(SubSeq(rows, 1, Len(rows) - 1), by), by)

\* reset_index(drop=True): the row labels become 0 .. n-1
ResetIndex(rows) ==
    [i \in 1..Len(rows) |-> [rows[i] EXCEPT !.index = i - 1]]

required_columns == <<"city", "timestamp", "temperature", "season">>

\* [col for col in required_columns if col not in df.columns]
missing_columns(columns) ==
    SelectSeq(required_columns, LAMBDA col : col \notin columns)

\* pd.read_csv: the temperature column is numeric when every cell is
TemperatureIsNumeric(file) ==
    \A i \in 1..Len(file.rows) : IsNumeric(file.rows[i]["temperature"])

ReadTemperature(file, i) ==
    IF TemperatureIsNumeric(file)
    THEN ParseFloat(file.rows[i]["temperature"])
    ELSE file.rows[i]["temperature"]

\* the frame of lines 29-38, all four columns being present
LoadedRows(file) ==
    [i \in 1..Len(file.rows) |->
        [index |-> i - 1,
         city |-> file.rows[i]["city"],
         timestamp |-> to_datetime(file.rows[i]["timestamp"]),
         temperature |-> ReadTemperature(file, i),
         season |-> str_strip(str_lower(file.rows[i]["season"])),
         season_ru |-> translate_season(
                          str_strip(str_lower(file.rows[i]["season"])))]]

\* the messages of the two failure returns
MissingColumnsError(missing) ==
    [text |-> "missing required columns", detail |-> missing]
LoadError(e) ==
    [text |-> "file load error", detail |-> <<e>>]

\* a handler that catches the missing-key error alone
CatchesKeyError(e) == e = "KeyError: timestamp"

\* except Exception: what the handler of lines 41-42 catches
Catches(e) == TRUE

Returned(d, e) == [df |-> d, error |-> e, raised |-> None]
Raise(e) ==
    IF Catches(e) THEN Returned(None, Some(LoadError(e)))
    ELSE [df |-> None, error |-> None, raised |-> Some(e)]

load_and_validate_data(file) ==
    IF file.columns = {}
    THEN Raise("EmptyDataError")
    ELSE IF "timestamp" \notin file.columns
    THEN Raise("KeyError: timestamp")
    ELSE IF \E i \in 1..Len(file.rows) : ~DateParses(file.rows[i]["timestamp"])
    THEN Raise("DateParseError")
    ELSE IF missing_columns(file.columns) # <<>>
    THEN Returned(None, Some(MissingColumnsError(missing_columns(file.columns))))
    ELSE Returned(Some(ResetIndex(SortValues(LoadedRows(file), <<"city", "timestamp">>))),
                  None)

(***************************************************************************)
(* The uploaded files the model draws from.                                *)
(***************************************************************************)
Tokens(col) ==
    CASE col = "city" -> CityTokens
      [] col = "timestamp" -> TimestampTokens
      [] col = "temperature" -> TemperatureTokens
      [] col = "season" -> SeasonTokens

AllTokens == CityTokens \cup TimestampTokens \cup TemperatureTokens \cup SeasonTokens

RequiredSet == {required_columns[i] : i \in 1..Len(required_columns)}

FileRows(columns) ==
    {r \in [columns -> AllTokens] : \A c \in columns : r[c] \in Tokens(c)}

NoFile == [columns |-> {}, rows |-> <<>>]
NoSettings == [ROLLING_WINDOW |-> 1, ANOMALY_THRESHOLD |-> 1]

\* nothing entered, fetched, drawn, shown or called yet
InitPage ==
    /\ api_key = "" /\ selected_city = None /\ weather_data = None
    /\ normal_data = <<>> /\ shown = <<>> /\ calls = <<>>

InitLoad ==
    /\ pc = "load"
    /\ \E columns \in SUBSET RequiredSet, n \in 0..MaxFileRows :
          \E rows \in [1..n -> FileRows(columns)] :
              uploaded_file = [columns |-> columns, rows |-> rows]
    /\ df = None /\ error = None /\ raised = None
    /\ settings = NoSettings
    /\ city_df = <<>> /\ city_data = <<>> /\ season_stats = <<>>
    /\ city_anomalies = <<>>
    /\ current_temp = 0 /\ current_season = "" /\ normality = None
    /\ InitPage

\* app.py line 115: df, error = load_and_validate_data(uploaded_file)
Load ==
    /\ pc = "load"
    /\ LET r == load_and_validate_data(uploaded_file)
       IN /\ df' = r.df
          /\ error' = r.error
          /\ raised' = r.raised
    /\ pc' = "loaded"
    /\ calls' = Append(calls, "load_and_validate_data")
    /\ UNCHANGED <<uploaded_file, settings, city_df, city_data, season_stats,
                   city_anomalies, current_temp, current_season, normality,
                   page>>

SpecLoad == InitLoad /\ [][Load]_vars

(***************************************************************************)
(* Floats.  A mean is an exact fraction num/den, a sample standard         *)
(* deviation the root of an exact fraction sqnum/sqden, a bound the value  *)
(* mean + k * std; each of them may be NaN.                                *)
(***************************************************************************)
NaN == [nan |-> TRUE, num |-> 0, den |-> 1]
NaNStd == [nan |-> TRUE, sqnum |-> 0, sqden |-> 1]

\* a mean taken with integer division
MeanFloorDiv(temps) ==
    IF temps = <<>> THEN NaN
    ELSE [nan |-> FALSE, num |-> SumSeq(temps) \div Len(temps), den |-> 1]

\* Series.mean(): sum / count, NaN for no values
Mean(temps) ==
    IF temps = <<>> THEN NaN
    ELSE [nan |-> FALSE, num |-> SumSeq(temps), den |-> Len(temps)]

\* sum over the values x of (sum - n * x)^2, which is n^2 times the sum of the
\* squared deviations from the mean
RECURSIVE SquaredDeviations(_, _, _)
SquaredDeviations(temps, total, n) ==
    IF temps = <<>> THEN 0
    ELSE (total - n * Head(temps)) * (total - n * Head(temps))
            + SquaredDeviations(Tail(temps), total, n)

\* the population standard deviation (ddof = 0)
StdPopulation(temps) ==
    IF Len(temps) < 1 THEN NaNStd
    ELSE [nan |-> FALSE,
          sqnum |-> SquaredDeviations(temps, SumSeq(temps), Len(temps)),
          sqden |-> Len(temps) * Len(temps) * Len(temps)]

\* Series.std(): ddof = 1, so NaN for fewer than two values
Std(temps) ==
    IF Len(temps) < 2 THEN NaNStd
    ELSE [nan |-> FALSE,
          sqnum |-> SquaredDeviations(temps, SumSeq(temps), Len(temps)),
          sqden |-> Len(temps) * Len(temps) * (Len(temps) - 1)]

\* mean + k * std as a float
Bound(mean, k, std) == [mean |-> mean, k |-> k, std |-> std]
BoundIsNaN(b) == b.mean.nan \/ b.std.nan

\* the sign of t - (mean + k * std), for a bound that is a number
BoundSign(t, b) ==
    LET x == t * b.mean.den - b.mean.num
        sx == Sign(x)
        sk == IF b.std.sqnum = 0 THEN 0 ELSE Sign(b.k)
    IN IF sx # sk THEN Sign(sx - sk)
       ELSE IF sx = 0 THEN 0
       ELSE sx * Sign(x * x * b.std.sqden
                        - b.k * b.k * b.std.sqnum * b.mean.den * b.mean.den)

\* the float comparisons of lines 71, 72 and 109; any comparison with NaN is False
TempLess(t, b) == ~BoundIsNaN(b) /\ BoundSign(t, b) < 0
TempGreater(t, b) == ~BoundIsNaN(b) /\ BoundSign(t, b) > 0
\* b < t, the strict form of b <= t
BoundLess(b, t) == ~BoundIsNaN(b) /\ BoundSign(t, b) > 0
BoundLeq(b, t) == ~BoundIsNaN(b) /\ BoundSign(t, b) >= 0
TempLeq(t, b) == ~BoundIsNaN(b) /\ BoundSign(t, b) <= 0

\* t - mean
Deviation(t, mean) ==
    IF mean.nan THEN NaN
    ELSE [nan |-> FALSE, num |-> t * mean.den - mean.num, den |-> mean.den]

(***************************************************************************)
(* analyze_city_data                                                       *)
(***************************************************************************)
Temperature(rows) == [i \in 1..Len(rows) |-> rows[i].temperature]

SeasonData(rows, season) == SelectSeq(rows, LAMBDA r : r.season = season)

\* rolling(window, min_periods).mean(): the running sum and count of the
\* window ending at row i, a value entering and the value window rows back leaving
RECURSIVE RollSum(_, _, _)
RollSum(temps, i, window) ==
    IF i = 0 THEN 0
    ELSE RollSum(temps, i - 1, window) + temps[i]
            - (IF i > window THEN temps[i - window] ELSE 0)

RECURSIVE RollObs(_, _)
RollObs(i, window) ==
    IF i = 0 THEN 0
    ELSE RollObs(i - 1, window) + 1 - (IF i > window THEN 1 ELSE 0)

\* rolling(window).mean() with min_periods left at its default, the window
RollingMeanFullWindow(temps, i, window, min_periods) ==
    IF RollObs(i, window) >= window
    THEN [nan |-> FALSE, num |-> RollSum(temps, i, window),
          den |-> RollObs(i, window)]
    ELSE NaN

RollingMean(temps, i, window, min_periods) ==
    IF RollObs(i, window) >= min_periods
    THEN [nan |-> FALSE, num |-> RollSum(temps, i, window),
          den |-> RollObs(i, window)]
    ELSE NaN

\* lines 46-49: the frame sorted by timestamp, with the rolling mean column
WithRollingMean(rows, window) ==
    [i \in 1..Len(rows) |->
        [index |-> rows[i].index,
         city |-> rows[i].city,
         timestamp |-> rows[i].timestamp,
         temperature |-> rows[i].temperature,
         season |-> rows[i].season,
         season_ru |-> rows[i].season_ru,
         rolling_mean |-> RollingMean(Temperature(rows), i, window, 1)]]

\* Series.unique(): the distinct seasons in order of first appearance
RECURSIVE Unique(_)
Unique(rows) ==
    IF rows = <<>> THEN <<>>
    ELSE LET before == Unique(SubSeq(rows, 1, Len(rows) - 1))
             s == rows[Len(rows)].season
         IN IF \E i \in 1..Len(before) : before[i] = s
            THEN before ELSE before \o <<s>>

\* groupby('season'): the group keys, sorted
GroupKeys(rows) ==
    LET keys == Unique(rows)
        sorted == SortValues([i \in 1..Len(keys) |-> [season |-> keys[i]]],
                             <<"season">>)
    IN [i \in 1..Len(sorted) |-> sorted[i].season]

Min(temps) == CHOOSE x \in {temps[i] : i \in 1..Len(temps)} :
                  \A i \in 1..Len(temps) : x <= temps[i]
Max(temps) == CHOOSE x \in {temps[i] : i \in 1..Len(temps)} :
                  \A i \in 1..Len(temps) : x >= temps[i]

\* lines 51-58: one row of aggregates per group
SeasonStats(rows) ==
    LET keys == GroupKeys(rows)
    IN [i \in 1..Len(keys) |->
          LET temps == Temperature(SeasonData(rows, keys[i]))
          IN [season |-> keys[i],
              mean |-> Mean(temps),
              std |-> Std(temps),
              min |-> Min(temps),
              max |-> Max(temps),
              count |-> Len(temps),
              season_ru |-> translate_season(keys[i])]]

\* the test with the bounds themselves counted as outside
IsAnomalyInclusive(r, lower_bound, upper_bound) ==
    TempLeq(r.temperature, lower_bound) \/ BoundLeq(upper_bound, r.temperature)

\* lines 70-73: the rows of one season outside its bounds
IsAnomaly(r, lower_bound, upper_bound) ==
    TempLess(r.temperature, lower_bound) \/ TempGreater(r.temperature, upper_bound)

\* lines 62-79: the annotated anomalies of one season
SeasonAnomalies(rows, season, threshold) ==
    LET season_data == SeasonData(rows, season)
        mean_temp == Mean(Temperature(season_data))
        std_temp == Std(Temperature(season_data))
        lower_bound == Bound(mean_temp, -threshold, std_temp)
        upper_bound == Bound(mean_temp, threshold, std_temp)
        anomalies == SelectSeq(season_data,
                               LAMBDA r : IsAnomaly(r, lower_bound, upper_bound))
    IN [i \in 1..Len(anomalies) |->
          [index |-> anomalies[i].index,
           city |-> anomalies[i].city,
           timestamp |-> anomalies[i].timestamp,
           temperature |-> anomalies[i].temperature,
           season |-> anomalies[i].season,
           season_ru |-> anomalies[i].season_ru,
           rolling_mean |-> anomalies[i].rolling_mean,
           lower_bound |-> lower_bound,
           upper_bound |-> upper_bound,
           deviation |-> Deviation(anomalies[i].temperature, mean_temp)]]

\* lines 60-84: the seasons' anomalies one after the other, labelled 0 .. k-1
RECURSIVE ConcatAnomalies(_, _, _)
ConcatAnomalies(rows, seasons, threshold) ==
    IF seasons = <<>> THEN <<>>
    ELSE SeasonAnomalies(rows, Head(seasons), threshold)
            \o ConcatAnomalies(rows, Tail(seasons), threshold)

\* the caller's frame had the function sorted it and added the column in place
CallerFrameInPlace(frame, cfg) ==
    WithRollingMean(SortValues(frame, <<"timestamp">>), cfg.ROLLING_WINDOW)

\* line 46: sort_values() returns a new frame and .copy() detaches it, so the
\* column of line 47 is added to the copy and the caller's frame stays as it was
CallerFrame(frame, cfg) == frame

analyze_city_data(frame, cfg) ==
    LET sorted == WithRollingMean(SortValues(frame, <<"timestamp">>),
                                  cfg.ROLLING_WINDOW)
    IN [city_data |-> sorted,
        season_stats |-> SeasonStats(sorted),
        city_anomalies |->
            ResetIndex(ConcatAnomalies(sorted, Unique(sorted),
                                       cfg.ANOMALY_THRESHOLD))]

(***************************************************************************)
(* check_temperature_normality                                             *)
(***************************************************************************)
get_current_season(month) ==
    IF month \in {12, 1, 2} THEN "winter"
    ELSE IF month \in {3, 4, 5} THEN "spring"
    ELSE IF month \in {6, 7, 8} THEN "summer"
    ELSE "autumn"

\* a division that is never guarded
StdUnguarded(std) == TRUE

\* std_temp > 0, False for NaN
StdPositive(std) == ~std.nan /\ std.sqnum > 0

\* the float 0, and deviation / std kept as its sign and its exact square
ZeroRatio == [sign |-> 0, sqnum |-> 0, sqden |-> 1]
Ratio(deviation, std) ==
    [sign |-> Sign(deviation.num),
     sqnum |-> deviation.num * deviation.num * std.sqden,
     sqden |-> deviation.den * deviation.den * std.sqnum]

\* a no-data result that reports the reading as not normal
NoDataResultNotNormal ==
    [is_normal |-> Some(FALSE), mean_temp |-> None, std_temp |-> None,
     lower_bound |-> None, upper_bound |-> None, deviation |-> None,
     deviation_in_std |-> None, no_data |-> TRUE]

\* lines 92-101
NoDataResult ==
    [is_normal |-> None, mean_temp |-> None, std_temp |-> None,
     lower_bound |-> None, upper_bound |-> None, deviation |-> None,
     deviation_in_std |-> None, no_data |-> TRUE]

check_temperature_normality(temp, season, stats, threshold) ==
    LET season_data == SelectSeq(stats, LAMBDA row : row.season = season)
    IN IF Len(season_data) = 0 THEN NoDataResult
       ELSE LET mean_temp == season_data[1].mean
                std_temp == season_data[1].std
                lower_bound == Bound(mean_temp, -threshold, std_temp)
                upper_bound == Bound(mean_temp, threshold, std_temp)
                deviation == Deviation(temp, mean_temp)
            IN [is_normal |-> Some(BoundLeq(lower_bound, temp)
                                      /\ TempLeq(temp, upper_bound)),
                mean_temp |-> Some(mean_temp),
                std_temp |-> Some(std_temp),
                lower_bound |-> Some(lower_bound),
                upper_bound |-> Some(upper_bound),
                deviation |-> Some(deviation),
                deviation_in_std |->
                    Some(IF StdPositive(std_temp)
                         THEN Ratio(deviation, std_temp) ELSE ZeroRatio),
                no_data |-> FALSE]

(***************************************************************************)
(* The city frames and settings the model draws from.                      *)
(***************************************************************************)
Temperatures == {-5, 7}
Seasons == {"winter", "summer"}
TimestampOrders == {"ascending", "paired", "alternating"}

Day(order, i) ==
    CASE order = "ascending" -> i
      [] order = "paired" -> (i + 1) \div 2
      [] order = "alternating" -> IF i % 2 = 1 THEN 2 ELSE 1

\* a frame of one city: n rows with the given temperatures and seasons
CityFrame(n, order, temps, seasons) ==
    [i \in 1..n |->
        [index |-> i - 1,
         city |-> "Berlin",
         timestamp |-> Day(order, i),
         temperature |-> temps[i],
         season |-> seasons[i],
         season_ru |-> translate_season(seasons[i])]]

ConfigSettings ==
    {[ROLLING_WINDOW |-> 30, ANOMALY_THRESHOLD |-> 2],
     [ROLLING_WINDOW |-> 2, ANOMALY_THRESHOLD |-> 1]}

InitFrame(maxRows) ==
    /\ pc = "analyze"
    /\ uploaded_file = NoFile
    /\ df = None /\ error = None /\ raised = None
    /\ settings \in ConfigSettings
    /\ \E n \in 0..maxRows, order \in TimestampOrders :
          \E temps \in [1..n -> Temperatures], seasons \in [1..n -> Seasons] :
              city_df = CityFrame(n, order, temps, seasons)
    /\ city_data = <<>> /\ season_stats = <<>> /\ city_anomalies = <<>>
    /\ current_temp = 0 /\ current_season = "" /\ normality = None
    /\ InitPage

InitAnalyze == InitFrame(MaxRows)

\* app.py line 142: city_data, season_stats, city_anomalies = analyze_city_data(city_df)
\* On a temperature column of text (read_csv found a cell that is no number)
\* the rolling mean of lines 47-49 raises, and nothing in app.py catches it.
Analyze ==
    /\ pc = "analyze"
    /\ calls' = Append(calls, "analyze_city_data")
    /\ IF TemperatureIsNumeric(uploaded_file)
       THEN /\ LET r == analyze_city_data(city_df, settings)
               IN /\ city_data' = r.city_data
                  /\ season_stats' = r.season_stats
                  /\ city_anomalies' = r.city_anomalies
            /\ city_df' = CallerFrame(city_df, settings)
            /\ pc' = "analyzed"
            /\ UNCHANGED raised
       ELSE /\ raised' = Some("DataError")
            /\ pc' = "crashed"
            /\ UNCHANGED <<city_df, city_data, season_stats, city_anomalies>>
    /\ UNCHANGED <<uploaded_file, df, error, settings,
                   current_temp, current_season, normality, page>>

SpecAnalyze == InitAnalyze /\ [][Analyze]_vars

\* the readings the weather provider may report
CurrentTemps == {-8, -5, 1, 7, 20}
Months == 1..12

InitClassify == InitFrame(MaxHistory)

\* app.py lines 367-371: the reading classified against the season's history
Classify ==
    /\ pc = "analyzed"
    /\ \E temp \in CurrentTemps, month \in Months :
          /\ current_temp' = temp
          /\ current_season' = get_current_season(month)
          /\ normality' = Some(check_temperature_normality(
                                  temp, get_current_season(month), season_stats,
                                  settings.ANOMALY_THRESHOLD))
    /\ pc' = "classified"
    /\ calls' = Append(calls, "check_temperature_normality")
    /\ UNCHANGED <<uploaded_file, df, error, raised, settings, city_df,
                   city_data, season_stats, city_anomalies, page>>

SpecClassify == InitClassify /\ [][Analyze \/ Classify]_vars

\* the page is run again on the same selection (every interaction re-runs the
\* script): app.py line 142 calls analyze_city_data on its frame a second time
Reanalyze ==
    /\ pc = "analyzed"
    /\ LET r == analyze_city_data(city_df, settings)
       IN /\ city_data' = r.city_data
          /\ season_stats' = r.season_stats
          /\ city_anomalies' = r.city_anomalies
    /\ city_df' = CallerFrame(city_df, settings)
    /\ calls' = Append(calls, "analyze_city_data")
    /\ pc' = "reanalyzed"
    /\ UNCHANGED <<uploaded_file, df, error, raised, settings,
                   current_temp, current_season, normality, page>>

SpecReanalyze == InitClassify /\ [][Analyze \/ Reanalyze]_vars

(***************************************************************************)
(* utils/weather_api.py.  What the provider answers is an input: the       *)
(* transport may fail, and a response has a status code and a body.        *)
(***************************************************************************)
\* the temperatures a complete body reports
ProviderTemps == {-5, 20}

\* a request that never gets a response, by the exception requests.get raises
TransportFailures == {"Timeout", "ConnectionError"}

\* bodies: "complete" has every key lines 27-35 read; "incomplete" is JSON
\* without them (a 200 body such as {"cod": 200}); "not_json" is no JSON;
\* "message" and "no_message" are JSON objects with and without a message key
Outcome(transport, status_code, body, temp) ==
    [transport |-> transport, status_code |-> status_code, body |-> body,
     temp |-> temp]

ProviderOutcomes ==
    {Outcome(t, 0, "none", 0) : t \in TransportFailures}
        \cup {Outcome("ok", 401, b, 0) : b \in {"message", "no_message"}}
        \cup {Outcome("ok", c, "message", 0) : c \in {404, 500}}
        \cup {Outcome("ok", 200, b, 0) : b \in {"incomplete", "not_json"}}
        \cup {Outcome("ok", 200, "complete", t) : t \in ProviderTemps}

\* the subclasses of requests.exceptions.RequestException met here
\* (JSONDecodeError is one of them from requests 2.27 on)
RequestException == {"Timeout", "ConnectionError", "HTTPError", "JSONDecodeError"}

\* lines 16-20, 25-36 and 38-42: the three dictionaries returned
InvalidKey(message) ==
    [success |-> FALSE, error |-> "invalid_key", message |-> message]
RequestError(e) ==
    [success |-> FALSE, error |-> "request_error", message |-> e]
Weather(temp) == [success |-> TRUE, temperature |-> temp]

ReturnedWeather(w) == [value |-> Some(w), raised |-> None]

\* an exception raised inside the try of lines 13-36: line 37 handles the
\* RequestException family, anything else leaves the function
RaiseInTry(e) ==
    IF e \in RequestException THEN ReturnedWeather(RequestError(e))
    ELSE [value |-> None, raised |-> Some(e)]

get_current_temperature(city_name, key, outcome) ==
    IF outcome.transport # "ok" THEN RaiseInTry(outcome.transport)
    ELSE IF outcome.status_code = 401
    THEN ReturnedWeather(InvalidKey(IF outcome.body = "message"
                                    THEN "provider message"
                                    ELSE "Invalid API key"))
    ELSE IF outcome.status_code # 200 THEN RaiseInTry("HTTPError")
    ELSE IF outcome.body = "not_json" THEN RaiseInTry("JSONDecodeError")
    ELSE IF outcome.body = "incomplete" THEN RaiseInTry("KeyError")
    ELSE ReturnedWeather(Weather(outcome.temp))

(***************************************************************************)
(* utils/visualizations.py                                                 *)
(***************************************************************************)
Index(rows) == {rows[i].index : i \in 1..Len(rows)}

\* create_timeseries, line 34: the rows of the 'temperature' trace,
\* city_data[~city_data.index.isin(city_anomalies.index)]
create_timeseries(data, anomalies) ==
    SelectSeq(data, LAMBDA r : r.index \notin Index(anomalies))

(***************************************************************************)
(* app.py: one run of the page, from the uploaded file to the last tab.    *)
(* pc is the statement the run has reached; calls lists the functions the  *)
(* run has called, shown the messages it has put on the page.  The tabs'   *)
(* metrics and the other charts are not modelled.                          *)
(***************************************************************************)
\* rows of an uploaded CSV file in a run of the whole page
MaxUploadRows == 2

ApiKeys == {"", "key"}

Message(kind, message) == [kind |-> kind, message |-> message]
Loaded == [text |-> "data loaded", detail |-> <<>>]
EnterKey == [text |-> "enter the API key", detail |-> <<>>]
FetchFailed(w) == [text |-> w.error, detail |-> <<w.message>>]

InitApp ==
    /\ pc = "load"
    /\ \E columns \in SUBSET RequiredSet, n \in 0..MaxUploadRows :
          \E rows \in [1..n -> FileRows(columns)] :
              uploaded_file = [columns |-> columns, rows |-> rows]
    /\ df = None /\ error = None /\ raised = None
    /\ \E cfg \in ConfigSettings : settings = cfg
    /\ city_df = <<>> /\ city_data = <<>> /\ season_stats = <<>>
    /\ city_anomalies = <<>>
    /\ current_temp = 0 /\ current_season = "" /\ normality = None
    /\ \E key \in ApiKeys : api_key = key
    /\ selected_city = None /\ weather_data = None
    /\ normal_data = <<>> /\ shown = <<>> /\ calls = <<>>

\* a run that went on after the error was shown
st_continue == "select"

\* line 119, st.stop(): the run ends here
st_stop == "stopped"

\* lines 117-121: if error: st.error(...); st.stop() -- else st.success(...)
CheckError ==
    /\ pc = "loaded" /\ IsNone(raised)
    /\ IF ~IsNone(error)
       THEN /\ shown' = Append(shown, Message("error", error.val))
            /\ pc' = st_stop
       ELSE /\ shown' = Append(shown, Message("success", Loaded))
            /\ pc' = "select"
    /\ UNCHANGED <<uploaded_file, df, error, raised, settings, city_df,
                   city_data, season_stats, city_anomalies, current_temp,
                   current_season, normality, api_key, selected_city,
                   weather_data, normal_data, calls>>

\* line 129: the options of the selectbox (None when there is no city)
Options(rows) ==
    IF rows = <<>> THEN {None} ELSE {Some(rows[i].city) : i \in 1..Len(rows)}

\* line 139: df[df['city'] == selected_city].copy(), the rows keep their labels
CityRows(rows, city) ==
    IF IsNone(city) THEN <<>>
    ELSE SelectSeq(rows, LAMBDA r : r.city = city.val)

\* lines 129-139; df['city'] on a df of None raises TypeError
SelectCity ==
    /\ pc = "select"
    /\ calls' = Append(calls, "selectbox")
    /\ IF IsNone(df)
       THEN /\ raised' = Some("TypeError")
            /\ pc' = "crashed"
            /\ UNCHANGED <<selected_city, city_df>>
       ELSE /\ \E city \in Options(df.val) :
                  /\ selected_city' = city
                  /\ city_df' = CityRows(df.val, city)
            /\ pc' = "analyze"
            /\ UNCHANGED raised
    /\ UNCHANGED <<uploaded_file, df, error, settings, city_data,
                   season_stats, city_anomalies, current_temp, current_season,
                   normality, api_key, weather_data, normal_data, shown>>

\* line 209: fig = create_timeseries(city_data, city_anomalies)
CreateTimeseries ==
    /\ pc = "analyzed"
    /\ normal_data' = create_timeseries(city_data, city_anomalies)
    /\ calls' = Append(calls, "create_timeseries")
    /\ pc' = "tab5"
    /\ UNCHANGED <<uploaded_file, df, error, raised, settings, city_df,
                   city_data, season_stats, city_anomalies, current_temp,
                   current_season, normality, api_key, selected_city,
                   weather_data, shown>>

\* lines 336-347: if not api_key: st.warning(...)
NoApiKey ==
    /\ pc = "tab5" /\ api_key = ""
    /\ shown' = Append(shown, Message("warning", EnterKey))
    /\ pc' = "done"
    /\ UNCHANGED <<uploaded_file, df, error, raised, settings, city_df,
                   city_data, season_stats, city_anomalies, current_temp,
                   current_season, normality, api_key, selected_city,
                   weather_data, normal_data, calls>>

\* lines 349-352: weather_data = get_current_temperature(city_eng, api_key);
\* an exception that leaves the function ends the run, app.py has no handler
Fetch ==
    /\ pc = "tab5" /\ api_key # ""
    /\ \E outcome \in ProviderOutcomes :
          LET r == get_current_temperature(selected_city, api_key, outcome)
          IN /\ weather_data' = r.value
             /\ raised' = r.raised
             /\ pc' = IF IsNone(r.raised) THEN "fetched" ELSE "crashed"
    /\ calls' = Append(calls, "get_current_temperature")
    /\ UNCHANGED <<uploaded_file, df, error, settings, city_df,
                   city_data, season_stats, city_anomalies, current_temp,
                   current_season, normality, api_key, selected_city,
                   normal_data, shown>>

\* lines 354-365: if not weather_data['success']: st.error(...)
ShowFetchError ==
    /\ pc = "fetched" /\ ~weather_data.val.success
    /\ shown' = Append(shown, Message("error", FetchFailed(weather_data.val)))
    /\ pc' = "done"
    /\ UNCHANGED <<uploaded_file, df, error, raised, settings, city_df,
                   city_data, season_stats, city_anomalies, current_temp,
                   current_season, normality, api_key, selected_city,
                   weather_data, normal_data, calls>>

\* lines 366-371: the fetched temperature classified against season_stats
ClassifyCurrent ==
    /\ pc = "fetched" /\ weather_data.val.success
    /\ \E month \in Months :
          /\ current_temp' = weather_data.val.temperature
          /\ current_season' = get_current_season(month)
          /\ normality' = Some(check_temperature_normality(
                                  weather_data.val.temperature,
                                  get_current_season(month), season_stats,
                                  settings.ANOMALY_THRESHOLD))
    /\ calls' = Append(calls, "check_temperature_normality")
    /\ pc' = "done"
    /\ UNCHANGED <<uploaded_file, df, error, raised, settings, city_df,
                   city_data, season_stats, city_anomalies, page>>

Next ==
    \/ Load \/ CheckError \/ SelectCity \/ Analyze \/ CreateTimeseries
    \/ NoApiKey \/ Fetch \/ ShowFetchError \/ ClassifyCurrent

Spec == InitApp /\ [][Next]_vars

\* the loader's frame for a file in which two cities have the same observations
TwoCities(frame) ==
    ResetIndex(SortValues(
        frame \o [i \in 1..Len(frame) |-> [frame[i] EXCEPT !.city = "Moscow"]],
        <<"city", "timestamp">>))

\* the run after a load that succeeded (line 121 reached)
InitTimeseries ==
    /\ pc = "select"
    /\ uploaded_file = NoFile
    /\ \E n \in 1..MaxRows, order \in TimestampOrders :
          \E temps \in [1..n -> Temperatures], seasons \in [1..n -> Seasons] :
              df = Some(TwoCities(CityFrame(n, order, temps, seasons)))
    /\ error = None /\ raised = None
    /\ \E cfg \in ConfigSettings : settings = cfg
    /\ city_df = <<>> /\ city_data = <<>> /\ season_stats = <<>>
    /\ city_anomalies = <<>>
    /\ current_temp = 0 /\ current_season = "" /\ normality = None
    /\ api_key = "" /\ selected_city = None /\ weather_data = None
    /\ normal_data = <<>>
    /\ shown = <<Message("success", Loaded)>>
    /\ calls = <<"load_and_validate_data">>

SpecTimeseries == InitTimeseries /\ [][SelectCity \/ Analyze \/ CreateTimeseries]_vars

(***************************************************************************)
(* Claims about analyze_city_data (checked under SpecAnalyze).  The        *)
(* statistics they speak of are taken here from the caller's frame by      *)
(* counting and summing over row positions.                                *)
(***************************************************************************)
RECURSIVE SumAt(_, _)
SumAt(f, I) ==
    IF I = {} THEN 0
    ELSE LET i == CHOOSE j \in I : TRUE IN f[i] + SumAt(f, I \ {i})

InputTemps == [i \in 1..Len(city_df) |-> city_df[i].temperature]
InputSquares == [i \in 1..Len(city_df) |-> city_df[i].temperature * city_df[i].temperature]
InputSeasons == {city_df[i].season : i \in 1..Len(city_df)}

Positions(season) == {i \in 1..Len(city_df) : city_df[i].season = season}
N(season) == Cardinality(Positions(season))
S(season) == SumAt(InputTemps, Positions(season))
Q(season) == SumAt(InputSquares, Positions(season))
K == settings.ANOMALY_THRESHOLD

\* |t - mean| > K * std for the season's sample std:
\* (N t - S)^2 (N - 1) > K^2 N (N Q - S^2), and never for an undefined std
Outside(t, season) ==
    /\ N(season) >= 2
    /\ (N(season) * t - S(season)) * (N(season) * t - S(season)) * (N(season) - 1)
          > K * K * N(season) * (N(season) * Q(season) - S(season) * S(season))

\* the float m is the mean of the season, the float sd its sample std
IsSeasonMean(m, season) ==
    ~m.nan /\ m.num * N(season) = S(season) * m.den
IsSeasonStd(sd, season) ==
    IF N(season) < 2 THEN sd.nan
    ELSE /\ ~sd.nan
         /\ sd.sqnum * N(season) * (N(season) - 1)
               = (N(season) * Q(season) - S(season) * S(season)) * sd.sqden

Observed(season, day, t) ==
    {i \in 1..Len(city_df) :
        /\ city_df[i].season = season
        /\ city_df[i].timestamp = day
        /\ city_df[i].temperature = t}
Flagged(season, day, t) ==
    {i \in 1..Len(city_anomalies) :
        /\ city_anomalies[i].season = season
        /\ city_anomalies[i].timestamp = day
        /\ city_anomalies[i].temperature = t}
InputDays == {city_df[i].timestamp : i \in 1..Len(city_df)}

\* C1: an observation is in the returned anomaly set iff its temperature is
\* below mean - K std or above mean + K std of its own season; every anomaly
\* row carries those bounds and deviation = temperature - season mean, lies
\* strictly outside its reported bounds, and there are no more anomalies than
\* observations.
C1_AnomalyIffOutside ==
    pc = "analyzed" =>
        /\ \A season \in InputSeasons : \A day \in InputDays : \A t \in Temperatures :
              Cardinality(Flagged(season, day, t))
                 = IF Outside(t, season)
                   THEN Cardinality(Observed(season, day, t)) ELSE 0
        /\ \A i \in 1..Len(city_anomalies) :
              LET a == city_anomalies[i]
              IN /\ a.season \in InputSeasons
                 /\ Outside(a.temperature, a.season)
                 /\ a.lower_bound.k = -K /\ a.upper_bound.k = K
                 /\ IsSeasonMean(a.lower_bound.mean, a.season)
                 /\ IsSeasonMean(a.upper_bound.mean, a.season)
                 /\ IsSeasonStd(a.lower_bound.std, a.season)
                 /\ IsSeasonStd(a.upper_bound.std, a.season)
                 /\ ~a.deviation.nan
                 /\ a.deviation.num * N(a.season)
                       = (N(a.season) * a.temperature - S(a.season)) * a.deviation.den
                 /\ \/ TempLess(a.temperature, a.lower_bound)
                    \/ TempGreater(a.temperature, a.upper_bound)
        /\ Len(city_anomalies) <= Len(city_df)

\* under the threshold 2, a frame with anomalies and with rows that are none
C1_Witness ==
    /\ pc = "analyzed" /\ K = 2
    /\ Len(city_anomalies) > 0
    /\ Len(city_anomalies) < Len(city_df)

\* C8: season_stats has exactly one row per season present in the data and
\* none for an absent season; a row's count is the number of observations of
\* its season (the counts sum to the number of observations) and its mean,
\* sample std, min and max are those of the season's temperatures, whatever
\* the order of the rows.
C8_SeasonStatsRows ==
    pc = "analyzed" =>
        /\ {season_stats[i].season : i \in 1..Len(season_stats)} = InputSeasons
        /\ Len(season_stats) = Cardinality(InputSeasons)
        /\ \A i \in 1..Len(season_stats) :
              LET row == season_stats[i]
                  at == Positions(row.season)
              IN /\ row.count = Cardinality(at)
                 /\ IsSeasonMean(row.mean, row.season)
                 /\ IsSeasonStd(row.std, row.season)
                 /\ \E j \in at : city_df[j].temperature = row.min
                 /\ \A j \in at : city_df[j].temperature >= row.min
                 /\ \E j \in at : city_df[j].temperature = row.max
                 /\ \A j \in at : city_df[j].temperature <= row.max
        /\ SumSeq([i \in 1..Len(season_stats) |-> season_stats[i].count])
              = Len(city_df)

\* two seasons of different sizes, interleaved and out of timestamp order
C8_Witness ==
    /\ pc = "analyzed"
    /\ Len(season_stats) = 2
    /\ season_stats[1].count # season_stats[2].count
    /\ season_stats[1].min # season_stats[1].max
    /\ \E i \in 1..(Len(city_df) - 1) : city_df[i].timestamp > city_df[i + 1].timestamp

RECURSIVE WindowSum(_, _)
WindowSum(lo, hi) ==
    IF hi < lo THEN 0 ELSE city_data[hi].temperature + WindowSum(lo, hi - 1)

WindowStart(i) ==
    IF i - settings.ROLLING_WINDOW + 1 > 1 THEN i - settings.ROLLING_WINDOW + 1 ELSE 1

\* C9: the enriched sequence has the length of the input and is in timestamp
\* order; its smoothed value at position i is the arithmetic mean of the
\* temperatures at the positions max(first, i - ROLLING_WINDOW + 1) .. i; no
\* position is undefined and the first smoothed value is the first temperature.
C9_RollingMean ==
    pc = "analyzed" =>
        /\ Len(city_data) = Len(city_df)
        /\ \A i \in 1..(Len(city_data) - 1) :
              city_data[i].timestamp <= city_data[i + 1].timestamp
        /\ \A i \in 1..Len(city_data) :
              LET m == city_data[i].rolling_mean
              IN /\ ~m.nan
                 /\ m.num * (i - WindowStart(i) + 1)
                       = WindowSum(WindowStart(i), i) * m.den
        /\ Len(city_data) > 0 =>
              city_data[1].rolling_mean.num
                 = city_data[1].temperature * city_data[1].rolling_mean.den

\* a window shorter than the series, so that an early temperature has left it
C9_Witness ==
    /\ pc = "analyzed"
    /\ \E i \in 1..Len(city_data) :
          /\ i > settings.ROLLING_WINDOW
          /\ city_data[1].temperature # city_data[i].temperature
          /\ city_data[i].rolling_mean.num * i
                # WindowSum(1, i) * city_data[i].rolling_mean.den

Degenerate(season) ==
    \/ N(season) = 1
    \/ \A i, j \in Positions(season) : city_df[i].temperature = city_df[j].temperature

\* C10: a season with a degenerate standard deviation contributes no
\* anomalies and the analysis still returns: none of the members of a season
\* with exactly one observation (std undefined) is flagged, and none of a
\* season whose observations all share one temperature (std = 0).
C10_DegenerateSeasonsUnflagged ==
    pc = "analyzed" =>
        \A season \in InputSeasons :
            Degenerate(season) =>
                \A i \in 1..Len(city_anomalies) : city_anomalies[i].season # season

\* one season of a single observation beside one of several equal temperatures
C10_Witness ==
    /\ pc = "analyzed"
    /\ \E one, flat \in InputSeasons :
          /\ N(one) = 1
          /\ N(flat) >= 2 /\ Degenerate(flat)
    /\ city_anomalies = <<>>

(***************************************************************************)
(* Claims about check_temperature_normality (checked under SpecClassify).  *)
(***************************************************************************)
\* |t - mean| <= K * std for the season's sample std, and never for an
\* undefined std
Inside(t, season) ==
    /\ N(season) >= 2
    /\ (N(season) * t - S(season)) * (N(season) * t - S(season)) * (N(season) - 1)
          <= K * K * N(season) * (N(season) * Q(season) - S(season) * S(season))

\* C2: when the season has a row in the statistics, is_normal is true exactly
\* when lower_bound <= currentTemp <= upper_bound, both ends included, for the
\* bounds mean -/+ ANOMALY_THRESHOLD * std; with std = 0 the bounds are
\* [mean, mean] and currentTemp = mean is normal.
C2_NormalIffWithinBounds ==
    (pc = "classified" /\ current_season \in InputSeasons) =>
        LET r == normality.val
        IN /\ ~IsNone(r.is_normal)
           /\ r.is_normal.val <=> Inside(current_temp, current_season)
           /\ r.lower_bound.val.k = -K /\ r.upper_bound.val.k = K
           /\ IsSeasonMean(r.lower_bound.val.mean, current_season)
           /\ IsSeasonMean(r.upper_bound.val.mean, current_season)
           /\ IsSeasonStd(r.lower_bound.val.std, current_season)
           /\ IsSeasonStd(r.upper_bound.val.std, current_season)
           /\ IsSeasonMean(r.mean_temp.val, current_season)
           /\ IsSeasonStd(r.std_temp.val, current_season)

\* a season of several equal temperatures and a reading equal to them
C2_Witness ==
    /\ pc = "classified" /\ current_season \in InputSeasons
    /\ N(current_season) >= 2
    /\ \A i \in Positions(current_season) : city_df[i].temperature = current_temp
    /\ normality.val.is_normal = Some(TRUE)

\* C3: when the statistics have no row for the season the result has
\* no_data = true and every other field unset; when they have one,
\* no_data = false; the call returns in both cases.
C3_NoDataIffNoRow ==
    pc = "classified" =>
        LET r == normality.val
        IN /\ ~IsNone(normality)
           /\ r.no_data <=> current_season \notin InputSeasons
           /\ r.no_data =>
                 /\ IsNone(r.is_normal) /\ IsNone(r.mean_temp)
                 /\ IsNone(r.std_temp) /\ IsNone(r.lower_bound)
                 /\ IsNone(r.upper_bound) /\ IsNone(r.deviation)
                 /\ IsNone(r.deviation_in_std)

\* statistics of one season, asked about another
C3_Witness ==
    /\ pc = "classified"
    /\ Len(season_stats) > 0
    /\ current_season \notin InputSeasons
    /\ normality.val.no_data

Variance(season) == N(season) * Q(season) - S(season) * S(season)

RECURSIVE GCD(_, _)
GCD(a, b) == IF b = 0 THEN a ELSE GCD(b, a % b)

\* a/b = c/e for naturals with b, e > 0, decided on the fractions in lowest terms
SameFraction(a, b, c, e) ==
    /\ a \div GCD(a, b) = c \div GCD(c, e)
    /\ b \div GCD(a, b) = e \div GCD(c, e)

\* C11: when the season has a row, deviation = currentTemp - mean, and
\* deviation_in_std = deviation / std (its sign and its exact square) for a
\* positive std and 0 for std = 0;
\* for std = 0 and for an undefined std the call returns a result.
C11_DeviationInStd ==
    (pc = "classified" /\ current_season \in InputSeasons) =>
        LET r == normality.val
            n == N(current_season)
            d == n * current_temp - S(current_season)
        IN /\ ~IsNone(normality) /\ ~r.no_data
           /\ ~IsNone(r.deviation) /\ ~IsNone(r.deviation_in_std)
           /\ ~r.deviation.val.nan
           /\ r.deviation.val.num * n = d * r.deviation.val.den
           /\ (n >= 2 /\ Variance(current_season) > 0) =>
                 /\ r.deviation_in_std.val.sign = Sign(d)
                 /\ r.deviation_in_std.val.sqden > 0
                 /\ SameFraction(r.deviation_in_std.val.sqnum,
                                 r.deviation_in_std.val.sqden,
                                 d * d * (n - 1), n * Variance(current_season))
           /\ (n >= 2 /\ Variance(current_season) = 0) =>
                 /\ r.deviation_in_std.val.sign = 0
                 /\ r.deviation_in_std.val.sqnum = 0
                 /\ r.deviation_in_std.val.sqden > 0

\* a season of several equal temperatures and a reading away from them
C11_Witness ==
    /\ pc = "classified" /\ current_season \in InputSeasons
    /\ N(current_season) >= 2 /\ Variance(current_season) = 0
    /\ normality.val.deviation.val.num # 0
    /\ normality.val.deviation_in_std.val = ZeroRatio

\* the reading is the temperature of an observation of the season asked about
IsHistorical ==
    \E i \in 1..Len(city_df) :
        /\ city_df[i].temperature = current_temp
        /\ city_df[i].season = current_season

InAnomalies ==
    \E i \in 1..Len(city_anomalies) :
        /\ city_anomalies[i].temperature = current_temp
        /\ city_anomalies[i].season = current_season

\* C15 as claimed: on every historical observation the classifier returns
\* is_normal = false iff the analyzer put the observation among the anomalies,
\* seasons of a single observation and of std = 0 included.
C15_AgreeOnHistory ==
    (pc = "classified" /\ IsHistorical) =>
        (normality.val.is_normal = Some(FALSE) <=> InAnomalies)

\* C15 as amended: on every historical observation of a season with at least
\* two observations (std defined, std = 0 included) the classifier returns
\* is_normal = false iff the observation is among the anomalies; for the
\* single observation of a season the classifier returns is_normal = false
\* and the analyzer flags nothing.
C15_AgreeWhereStdDefined ==
    (pc = "classified" /\ IsHistorical) =>
        /\ N(current_season) >= 2 =>
              (normality.val.is_normal = Some(FALSE) <=> InAnomalies)
        /\ N(current_season) = 1 =>
              normality.val.is_normal = Some(FALSE) /\ ~InAnomalies

\* a flagged observation of a season of several observations, classified
C15_Witness ==
    /\ pc = "classified" /\ IsHistorical
    /\ N(current_season) >= 2
    /\ InAnomalies
    /\ normality.val.is_normal = Some(FALSE)

Called(f) == \E i \in 1..Len(calls) : calls[i] = f

\* C12: once load_and_validate_data has returned an error, the run shows that
\* one message and stops: nothing but the load has been called, nothing else
\* is shown, no city is selected and no result exists, in every later state.
C12_LoadErrorStopsRun ==
    (~IsNone(error) /\ pc # "loaded") =>
        /\ pc = "stopped"
        /\ calls = <<"load_and_validate_data">>
        /\ shown = <<Message("error", error.val)>>
        /\ IsNone(selected_city) /\ IsNone(weather_data) /\ IsNone(normality)
        /\ city_data = <<>> /\ season_stats = <<>>

\* a file without its season column: the missing-columns error, shown
C12_Witness ==
    /\ pc = "stopped"
    /\ ~IsNone(error)
    /\ error.val.text = "missing required columns"
    /\ Len(shown) = 1

\* C13: whatever the provider's outcome, get_current_temperature returns a
\* success record or a typed failure and no exception leaves it; after a
\* returned failure check_temperature_normality is not called and
\* season_stats is what the analysis computed.
C13_FetchContained ==
    Called("get_current_temperature") =>
        /\ IsNone(raised)
        /\ ~IsNone(weather_data)
        /\ \/ weather_data.val.success
           \/ /\ weather_data.val.error \in {"invalid_key", "request_error"}
              /\ ~Called("check_temperature_normality")
              /\ season_stats = analyze_city_data(city_df, settings).season_stats

\* the observation of row r is among the anomalies
IsAnomalous(r) ==
    \E j \in 1..Len(city_anomalies) :
        /\ city_anomalies[j].timestamp = r.timestamp
        /\ city_anomalies[j].temperature = r.temperature
        /\ city_anomalies[j].season = r.season

\* C16: the 'temperature' trace of create_timeseries holds exactly the
\* observations of city_data that are not among city_anomalies, in order.
C16_NormalTraceExact ==
    pc = "tab5" =>
        normal_data = SelectSeq(city_data, LAMBDA r : ~IsAnomalous(r))

(***************************************************************************)
(* Claims about load_and_validate_data (checked under SpecLoad).           *)
(***************************************************************************)
MissingSet == RequiredSet \ uploaded_file.columns

Named(detail) == {detail[i] : i \in 1..Len(detail)}

\* C4: whenever a non-empty set of the required columns is absent from the
\* input table, the load fails with the missing-columns error, whose message
\* names every missing column, and returns no dataset.
C4_MissingColumnsNamed ==
    (pc = "loaded" /\ uploaded_file.columns # {} /\ MissingSet # {}) =>
        /\ IsNone(df)
        /\ ~IsNone(error)
        /\ error.val.text = "missing required columns"
        /\ MissingSet \subseteq Named(error.val.detail)

HasBadRow ==
    \E i \in 1..Len(uploaded_file.rows) :
        \/ ~DateParses(uploaded_file.rows[i]["timestamp"])
        \/ ~IsNumeric(uploaded_file.rows[i]["temperature"])

\* C5: whenever the table has all required columns and a row with an
\* unparseable timestamp or a non-numeric temperature, the load fails with the
\* parse error carrying the underlying message, and returns no dataset.
C5_BadRowFails ==
    (pc = "loaded" /\ MissingSet = {} /\ HasBadRow) =>
        /\ IsNone(df)
        /\ ~IsNone(error)
        /\ error.val.text = "file load error"
        /\ error.val.detail # <<>>

\* C6: the load returns exactly one of (dataset, error): a dataset with no
\* error, or no dataset with a non-empty error message; it never raises.
C6_ExactlyOne ==
    pc = "loaded" =>
        /\ IsNone(raised)
        /\ \/ ~IsNone(df) /\ IsNone(error)
           \/ /\ IsNone(df) /\ ~IsNone(error)
              /\ error.val.text # "" /\ error.val.detail # <<>>

\* a load that failed inside the try block and returned the error
C6_Witness ==
    /\ pc = "loaded" /\ MissingSet = {} /\ IsNone(df) /\ ~IsNone(error)
    /\ error.val.text = "file load error"
    /\ error.val.detail = <<"DateParseError">>

\* the cells of input row i as the loader types and normalises them
InputCells(i) ==
    <<uploaded_file.rows[i]["city"],
      to_datetime(uploaded_file.rows[i]["timestamp"]),
      ReadTemperature(uploaded_file, i),
      str_strip(str_lower(uploaded_file.rows[i]["season"]))>>

OutputCells(i) ==
    <<df.val[i].city, df.val[i].timestamp,
      df.val[i].temperature, df.val[i].season>>

\* the rows of key (city, day), in order, among the cell rows f[1..n]
RECURSIVE KeyRows(_, _, _, _)
KeyRows(f, n, city, day) ==
    IF n = 0 THEN <<>>
    ELSE KeyRows(f, n - 1, city, day)
            \o (IF f[n][1] = city /\ f[n][2] = day THEN <<f[n]>> ELSE <<>>)

\* C7: for every valid table the returned dataset is a permutation of the
\* input rows (same count, none dropped or duplicated), ascending by
\* (city, timestamp), with the rows of equal (city, timestamp) in input order.
C7_SortedStablePermutation ==
    (pc = "loaded" /\ ~IsNone(df)) =>
        LET n == Len(uploaded_file.rows)
            in == [i \in 1..n |-> InputCells(i)]
            out == [i \in 1..Len(df.val) |-> OutputCells(i)]
        IN /\ Len(df.val) = n
           /\ \A i \in 1..n : df.val[i].index = i - 1
           /\ \A i, j \in 1..Len(df.val) : i < j =>
                 \/ StrRank(df.val[i].city) < StrRank(df.val[j].city)
                 \/ /\ df.val[i].city = df.val[j].city
                    /\ df.val[i].timestamp <= df.val[j].timestamp
           /\ \A city \in CityTokens : \A day \in 1..2 :
                 KeyRows(out, Len(df.val), city, day) = KeyRows(in, n, city, day)

\* a load that reordered the rows and kept two different rows of one key
C7_Witness ==
    /\ pc = "loaded" /\ ~IsNone(df) /\ TemperatureIsNumeric(uploaded_file)
    /\ \E i, j \in 1..Len(df.val) :
          /\ i < j
          /\ df.val[i].city = df.val[j].city
          /\ df.val[i].timestamp = df.val[j].timestamp
          /\ df.val[i].season # df.val[j].season
    /\ \E i \in 1..Len(df.val) :
          df.val[i].city # uploaded_file.rows[i]["city"]
====
